---- MODULE Spec2Model ----
(***************************************************************************)
(* The room session engine of backend/server.js: the process-wide `rooms`  *)
(* registry, the socket.io event handlers that read and write it, and the  *)
(* two handlers (join-room, send-message) that suspend on the Firestore    *)
(* chat collection.  Every handler is one action; join-room and            *)
(* send-message are one action per synchronous section, because another    *)
(* event can be dispatched while they wait.                                *)
(***************************************************************************)
EXTENDS Integers, Sequences, FiniteSets, Bags, TLC

\* ------------------------------------------------------------------------
\* Bounds of the environment (not program constants)
\* ------------------------------------------------------------------------

\* socket ids handed out by socket.io: 1..NumConns
NumConns == 3
\* how many distinct values uuidv4().slice(0, 6) takes
NumRoomIds == 2
\* how many distinct video ids clients send
NumTracks == 3
\* clients stop sending join-room to a room whose roster has this length
MaxRoster == 2
\* asynchronous continuations (join-room, send-message, leave message) in flight
MaxPending == 1
\* Date.now() when the server starts, in ms since the epoch
StartTime == 1000000

Conns == 1..NumConns

IdPool == <<"a1b2c3", "d4e5f6", "0f9e8d", "c0ffee">>
RoomIds == {IdPool[i] : i \in 1..NumRoomIds}

TrackPool == <<"vidA", "vidB", "vidC", "vidD", "vidE">>
Tracks == {TrackPool[i] : i \in 1..NumTracks}

\* user.displayName of join-room; "" stands for a missing name
Names == {"ann"}
\* title of suggest-track; "" stands for a missing title
Titles == {""}
\* maxGuests of create-room; 0 stands for every falsy value (undefined, 0, null)
MaxGuestsIn == {-1, 2}

\* ------------------------------------------------------------------------
\* Program constants
\* ------------------------------------------------------------------------

DefaultMaxGuests == 10
CooldownUsers == 5
COOLDOWN_MS == 60000
DefaultVideo == "iwncGYFPxmU"

\* ------------------------------------------------------------------------
\* State
\* ------------------------------------------------------------------------

VARIABLES
  conn,      \* socket id -> "new" | "connected" | "gone"
  rooms,     \* the registry: room id -> room session, for the live room ids
  roomKeys,  \* the keys of `rooms` in for...in order (insertion order)
  pending,   \* bag of suspended handlers: [kind, conn, room, pc]
  now,       \* the last value Date.now() returned (the clock never runs back)
  crashed,   \* the process died of an unhandled promise rejection
  emitted    \* what the last handler step sent, where the environment listens

vars == <<conn, rooms, roomKeys, pending, now, crashed, emitted>>

\* ------------------------------------------------------------------------
\* Helpers
\* ------------------------------------------------------------------------

SeqToSet(s) == {s[i] : i \in 1..Len(s)}

RemoveAt(s, i) == [j \in 1..(Len(s) - 1) |-> IF j < i THEN s[j] ELSE s[j + 1]]

\* Array.prototype.filter
Filter(s, Keep(_)) == SelectSeq(s, Keep)

\* Array.prototype.findIndex, 1-based; 0 when nothing matches (-1 in the code)
FindIndex(s, Test(_)) ==
  IF \E i \in 1..Len(s) : Test(s[i])
  THEN CHOOSE i \in 1..Len(s) : Test(s[i]) /\ \A j \in 1..(i - 1) : ~Test(s[j])
  ELSE 0

\* Math.ceil(x / d) for d > 0 (\div rounds towards minus infinity)
Ceil(x, d) == -((-x) \div d)
Floor(x, d) == x \div d

Live(r) == r \in DOMAIN rooms

\* rooms[roomId] = session: a new key goes last, an existing key keeps its place
PutRoom(r, session) ==
  /\ rooms' = [k \in DOMAIN rooms \cup {r} |-> IF k = r THEN session ELSE rooms[k]]
  /\ roomKeys' = IF Live(r) THEN roomKeys ELSE Append(roomKeys, r)

\* delete rooms[roomId]
DeleteRoom(r) ==
  /\ rooms' = [k \in DOMAIN rooms \ {r} |-> rooms[k]]
  /\ roomKeys' = Filter(roomKeys, LAMBDA k : k # r)

\* ------------------------------------------------------------------------
\* Pure parts of the handlers
\* ------------------------------------------------------------------------

\* the session object create-room stores (maxGuests || 10)
NewRoomStamped(c, m) ==
  [hostId |-> c, guests |-> <<>>, currentVideoId |-> DefaultVideo,
   playbackState |-> "PAUSED", lastSeekTime |-> 0, queue |-> <<>>,
   lastSuggestionTime |-> StartTime,
   maxGuests |-> IF m = 0 THEN DefaultMaxGuests ELSE m]
NewRoom(c, m) ==
  [hostId |-> c, guests |-> <<>>, currentVideoId |-> DefaultVideo,
   playbackState |-> "PAUSED", lastSeekTime |-> 0, queue |-> <<>>,
   lastSuggestionTime |-> 0,
   maxGuests |-> IF m = 0 THEN DefaultMaxGuests ELSE m]

\* rooms[roomId].hostId === socket.id
IsHostAny(room, c) == TRUE
IsHost(room, c) == room.hostId = c

\* rooms[roomId].guests.length >= rooms[roomId].maxGuests
RoomFullNever(room) == FALSE
RoomFull(room) == Len(room.guests) >= room.maxGuests

\* rooms[roomId].queue.find(v => v.id === videoId), as a truth value
InQueueNever(queue, v) == FALSE
InQueue(queue, v) == \E i \in 1..Len(queue) : queue[i].id = v

\* totalUsers >= 5, with totalUsers = guests.length + 1
NeedsCooldownFromTwo(room) == Len(room.guests) + 1 >= 2
NeedsCooldown(room) == Len(room.guests) + 1 >= CooldownUsers

\* now - lastSuggestionTime < COOLDOWN_MS
CooldownRunning(room, t) == t - room.lastSuggestionTime < COOLDOWN_MS

\* Math.ceil((COOLDOWN_MS - (now - lastSuggestionTime)) / 1000)
TimeLeftFloor(room, t) == Floor(COOLDOWN_MS - (t - room.lastSuggestionTime), 1000)
TimeLeft(room, t) == Ceil(COOLDOWN_MS - (t - room.lastSuggestionTime), 1000)

\* guests.find(g => g.id === socket.id)?.username || 'Host'
SuggestedBy(room, c) ==
  LET i == FindIndex(room.guests, LAMBDA g : g.id = c)
  IN IF i = 0 \/ room.guests[i].username = "" THEN "Host"
     ELSE room.guests[i].username

\* the candidate suggest-track appends (title || videoId, votes: new Set())
Suggestion(room, c, v, title) ==
  [id |-> v, title |-> IF title = "" THEN v ELSE title,
   suggestedBy |-> SuggestedBy(room, c), votes |-> {}]

\* the room after an accepted suggestion: queue.push(suggestion) and
\* lastSuggestionTime = Date.now(), which returns t
AcceptedStampIfCooldown(room, c, v, title, t) ==
  [room EXCEPT !.queue = Append(@, Suggestion(room, c, v, title)),
               !.lastSuggestionTime = IF NeedsCooldown(room) THEN t ELSE @]
Accepted(room, c, v, title, t) ==
  [room EXCEPT !.queue = Append(@, Suggestion(room, c, v, title)),
               !.lastSuggestionTime = t]

\* the vote toggle: has ? delete : add
ToggleAddOnly(votes, c) == votes \cup {c}
Toggle(votes, c) == IF c \in votes THEN votes \ {c} ELSE votes \cup {c}

\* [...queue].sort((a, b) => b.votes.size - a.votes.size): a stable sort by
\* descending vote count, written as the insertion of each element, in queue
\* order, behind every element that does not compare after it
InsertDescBeforeTies(sorted, x) ==
  LET k == Cardinality({i \in 1..Len(sorted) :
                         Cardinality(sorted[i].votes) > Cardinality(x.votes)})
  IN SubSeq(sorted, 1, k) \o <<x>> \o SubSeq(sorted, k + 1, Len(sorted))
InsertDesc(sorted, x) ==
  LET k == Cardinality({i \in 1..Len(sorted) :
                         Cardinality(sorted[i].votes) >= Cardinality(x.votes)})
  IN SubSeq(sorted, 1, k) \o <<x>> \o SubSeq(sorted, k + 1, Len(sorted))

RECURSIVE SortDesc(_)
SortDesc(queue) ==
  IF queue = <<>> THEN <<>>
  ELSE InsertDesc(SortDesc(SubSeq(queue, 1, Len(queue) - 1)), queue[Len(queue)])

\* the track play-top-voted plays: element 0 of the sorted copy
TopTrackFirst(queue) == queue[1]
TopTrack(queue) == SortDesc(queue)[1]

\* the room the disconnect loop stops at: the first, in key order, that the
\* socket hosts or whose guests hold it; 0 when the loop runs to the end
StopIndex(c) ==
  FindIndex(roomKeys, LAMBDA k : \/ rooms[k].hostId = c
                                 \/ \E i \in 1..Len(rooms[k].guests) :
                                      rooms[k].guests[i].id = c)

\* ------------------------------------------------------------------------
\* What a handler answers (callback) and emits, from the state it finds
\* ------------------------------------------------------------------------

NoAck == [success |-> FALSE, message |-> "(no callback)", n |-> 0,
          cooldownActive |-> FALSE]
Ack(success, message) == [NoAck EXCEPT !.success = success, !.message = message]

\* join-room before its first await: the two early returns, else no answer yet
JoinReply(r) ==
  IF ~Live(r) THEN Ack(FALSE, "Room not found")
  ELSE IF RoomFull(rooms[r]) THEN Ack(FALSE, "This room is full.")
  ELSE NoAck

\* suggest-track, when Date.now() returns t at line 191: the three rejections,
\* else success with the cooldown flag; n is the number in
\* `Please wait ${timeLeft} seconds.`
SuggestReply(r, v, t) ==
  IF ~Live(r) THEN Ack(FALSE, "Room not found.")
  ELSE IF InQueue(rooms[r].queue, v)
  THEN Ack(FALSE, "Track is already in the queue.")
  ELSE IF NeedsCooldown(rooms[r]) /\ CooldownRunning(rooms[r], t)
  THEN [Ack(FALSE, "Please wait") EXCEPT !.n = TimeLeft(rooms[r], t)]
  ELSE [Ack(TRUE, "") EXCEPT !.cooldownActive = NeedsCooldown(rooms[r])]

\* host-action relays sync-playback only past the host check
HostActionEmits(c, r) ==
  IF Live(r) /\ IsHost(rooms[r], c) THEN {"sync-playback"} ELSE {}

\* play-top-voted emits set-video only past the host and empty-queue checks
PlayTopVotedEmits(c, r) ==
  IF Live(r) /\ IsHost(rooms[r], c) /\ rooms[r].queue # <<>>
  THEN {"set-video"} ELSE {}

\* join-room after the chat history read: room-state, or a TypeError on
\* rooms[roomId].queue when the room was deleted meanwhile
JoinGetEmits(p) == IF Live(p.room) THEN {"room-state"} ELSE {"(throws)"}

\* join-room after the awaited append: broadcast and ack, or the rejection
JoinAddEmits(ok) == IF ok THEN {"new-message", "ack"} ELSE {"(throws)"}

\* send-message after the append, whose failure is caught
SendAddEmits(ok) == {"new-message"}

\* create-room always answers success
CreateEmits == {"ack"}

\* join-room before its first await answers only on the two early returns
JoinEmits(r) == IF JoinReply(r) = NoAck THEN {} ELSE {"nack"}

\* suggest-track: the queue broadcast and the ack, flagged when the cooldown
\* was checked and passed, or the failure answer
SuggestEmits(r, v, t) ==
  IF ~SuggestReply(r, v, t).success THEN {"nack"}
  ELSE IF SuggestReply(r, v, t).cooldownActive
  THEN {"update-queue", "ack", "cooldownActive"}
  ELSE {"update-queue", "ack"}

\* vote-track broadcasts the queue when it found the track
VoteEmits(r, v) ==
  IF Live(r) /\ InQueue(rooms[r].queue, v) THEN {"update-queue"} ELSE {}

\* disconnect: host-left for the room it deletes, the leave message for the
\* room it removes a guest from
DisconnectEmits(c) ==
  IF StopIndex(c) = 0 THEN {}
  ELSE IF rooms[roomKeys[StopIndex(c)]].hostId = c THEN {"host-left"}
  ELSE {"new-message"}

\* nothing was sent
Silent == [conn |-> 0, room |-> "", events |-> {}]

\* ------------------------------------------------------------------------
\* Initial state: the server listens, no socket, `rooms` is {}
\* ------------------------------------------------------------------------

Init ==
  /\ conn = [c \in Conns |-> "new"]
  /\ rooms = <<>>
  /\ roomKeys = <<>>
  /\ pending = EmptyBag
  /\ now = StartTime
  /\ crashed = FALSE
  /\ emitted = Silent

Suspend(p) == pending (+) SetToBag({p})
Resume(p) == pending (-) SetToBag({p})

\* ------------------------------------------------------------------------
\* Handlers
\* ------------------------------------------------------------------------

\* io.on('connection')
Connect(c) ==
  /\ ~crashed
  /\ conn[c] = "new"
  /\ conn' = [conn EXCEPT ![c] = "connected"]
  /\ UNCHANGED <<rooms, roomKeys, pending, now, crashed>>

\* socket.on('create-room'); r is the value of uuidv4().slice(0, 6)
CreateRoom(c, r, m) ==
  /\ ~crashed /\ conn[c] = "connected"
  /\ PutRoom(r, NewRoom(c, m))
  /\ UNCHANGED <<conn, pending, now, crashed>>

\* socket.on('join-room'), up to the await of the chat history
JoinRoom(c, r, u) ==
  /\ ~crashed /\ conn[c] = "connected"
  /\ IF JoinReply(r) = NoAck
     THEN /\ rooms' = [rooms EXCEPT ![r].guests =
                          Append(@, [id |-> c, username |-> u])]
          /\ pending' = Suspend([kind |-> "join", conn |-> c, room |-> r,
                                 pc |-> "get"])
     ELSE UNCHANGED <<rooms, pending>>
  /\ UNCHANGED <<conn, roomKeys, now, crashed>>

\* join-room resumed after the chat history read (its failure is caught):
\* the queue snapshot reads rooms[roomId], which throws when the room is gone;
\* the rejected handler promise is handled by nobody (crash: what Node does of it)
JoinAfterGet(p, crash) ==
  /\ ~crashed /\ BagIn(p, pending) /\ p.kind = "join" /\ p.pc = "get"
  /\ IF "room-state" \in JoinGetEmits(p)
     THEN /\ pending' = Suspend([p EXCEPT !.pc = "add"]) (-) SetToBag({p})
          /\ crashed' = crashed
     ELSE /\ pending' = Resume(p)
          /\ crashed' = crash
  /\ UNCHANGED <<conn, rooms, roomKeys, now>>

\* join-room resumed after the append of the join message, which is awaited
\* outside any try: ok broadcasts and acks, a failure rejects the handler
JoinAfterAdd(p, ok, crash) ==
  /\ ~crashed /\ BagIn(p, pending) /\ p.kind = "join" /\ p.pc = "add"
  /\ pending' = Resume(p)
  /\ crashed' = IF "ack" \in JoinAddEmits(ok) THEN crashed ELSE crash
  /\ UNCHANGED <<conn, rooms, roomKeys, now>>

\* socket.on('host-action')
HostAction(c, r, type, time) ==
  /\ ~crashed /\ conn[c] = "connected"
  /\ IF Live(r) /\ IsHost(rooms[r], c)
     THEN rooms' = [rooms EXCEPT ![r].playbackState = type,
                                  ![r].lastSeekTime = time]
     ELSE UNCHANGED rooms
  /\ UNCHANGED <<conn, roomKeys, pending, now, crashed>>

\* socket.on('send-message'), up to the await of the append
SendMessage(c, r) ==
  /\ ~crashed /\ conn[c] = "connected"
  /\ IF Live(r)
     THEN pending' = Suspend([kind |-> "send", conn |-> c, room |-> r,
                              pc |-> "add"])
     ELSE UNCHANGED pending
  /\ UNCHANGED <<conn, rooms, roomKeys, now, crashed>>

\* send-message resumed: the append's failure is caught, the broadcast follows
SendAfterAdd(p, ok) ==
  /\ ~crashed /\ BagIn(p, pending) /\ p.kind = "send"
  /\ pending' = Resume(p)
  /\ UNCHANGED <<conn, rooms, roomKeys, now, crashed>>

\* socket.on('suggest-track'); t1 and t2 are what Date.now() returns at lines
\* 191 (read only with 5 users or more) and 212 (read only on acceptance)
SuggestTrack(c, r, v, title, t1, t2) ==
  /\ ~crashed /\ conn[c] = "connected"
  /\ now <= t1 /\ t1 <= t2
  /\ IF SuggestReply(r, v, t1).success
     THEN /\ rooms' = [rooms EXCEPT ![r] = Accepted(rooms[r], c, v, title, t2)]
          /\ now' = t2
     ELSE /\ UNCHANGED rooms
          /\ now' = IF SuggestReply(r, v, t1).message = "Please wait"
                    THEN t1 ELSE now
  /\ UNCHANGED <<conn, roomKeys, pending, crashed>>

\* socket.on('vote-track')
VoteTrack(c, r, v) ==
  /\ ~crashed /\ conn[c] = "connected"
  /\ IF Live(r) /\ InQueue(rooms[r].queue, v)
     THEN LET i == FindIndex(rooms[r].queue, LAMBDA item : item.id = v)
          IN rooms' = [rooms EXCEPT ![r].queue[i].votes = Toggle(@, c)]
     ELSE UNCHANGED rooms
  /\ UNCHANGED <<conn, roomKeys, pending, now, crashed>>

\* socket.on('play-top-voted')
PlayTopVoted(c, r) ==
  /\ ~crashed /\ conn[c] = "connected"
  /\ IF Live(r) /\ IsHost(rooms[r], c) /\ rooms[r].queue # <<>>
     THEN LET topTrack == TopTrack(rooms[r].queue)
          IN rooms' = [rooms EXCEPT
                         ![r].currentVideoId = topTrack.id,
                         ![r].playbackState = "PLAYING",
                         ![r].lastSeekTime = 0,
                         ![r].queue = Filter(@, LAMBDA x : x.id # topTrack.id)]
     ELSE UNCHANGED rooms
  /\ UNCHANGED <<conn, roomKeys, pending, now, crashed>>

\* socket.on('disconnect'): the loop over the rooms stops at the first room
\* the socket hosts (deleted) or is a guest of (spliced out, leave message
\* appended without await and broadcast)
Disconnect(c) ==
  /\ ~crashed /\ conn[c] = "connected"
  /\ conn' = [conn EXCEPT ![c] = "gone"]
  /\ LET i == StopIndex(c)
     IN IF i = 0
        THEN UNCHANGED <<rooms, roomKeys, pending>>
        ELSE LET r == roomKeys[i]
             IN IF rooms[r].hostId = c
                THEN /\ DeleteRoom(r)
                     /\ UNCHANGED pending
                ELSE LET g == FindIndex(rooms[r].guests, LAMBDA x : x.id = c)
                     IN /\ rooms' = [rooms EXCEPT ![r].guests = RemoveAt(@, g)]
                        /\ pending' = Suspend([kind |-> "leave", conn |-> c,
                                               room |-> r, pc |-> "add"])
                        /\ UNCHANGED roomKeys
  /\ UNCHANGED <<now, crashed>>

\* the append of the leave message settles; its promise is held by nobody,
\* so a failure is an unhandled rejection
LeaveAfterAdd(p, ok, crash) ==
  /\ ~crashed /\ BagIn(p, pending) /\ p.kind = "leave"
  /\ pending' = Resume(p)
  /\ crashed' = IF ok THEN crashed ELSE crash
  /\ UNCHANGED <<conn, rooms, roomKeys, now>>

\* ------------------------------------------------------------------------
\* The environment: which events clients send.  An environment E names, per
\* event, the sockets that send it and the payloads they send; the handlers
\* above are the same under every environment.
\* ------------------------------------------------------------------------

\* a join-room is sent to a room whose roster is short of maxRoster, or full
MaySendJoin(E, r) ==
  Live(r) => \/ Len(rooms[r].guests) < E.maxRoster
             \/ Len(rooms[r].guests) >= rooms[r].maxGuests

MaySuspend(E) == BagCardinality(pending) < E.maxPending

\* the disconnect of c will start an append of a leave message
WillSuspend(c) ==
  LET i == StopIndex(c) IN i # 0 /\ rooms[roomKeys[i]].hostId # c

\* the values Date.now() returns
Clock(E) == {StartTime + d : d \in E.clock}

\* what the clients of a listening environment receive from the step of socket
\* c for room r
Observe(E, c, r, events) ==
  emitted' = IF E.observe THEN [conn |-> c, room |-> r, events |-> events]
             ELSE emitted

NextE(E) ==
  \/ \E c \in E.conns : Connect(c) /\ Observe(E, c, "", {})
  \/ \E c \in E.creators, r \in E.roomIds, m \in E.maxGuests :
       CreateRoom(c, r, m) /\ Observe(E, c, r, CreateEmits)
  \/ \E c \in E.joiners, r \in E.roomIds, u \in Names :
       /\ MaySendJoin(E, r) /\ MaySuspend(E) /\ JoinRoom(c, r, u)
       /\ Observe(E, c, r, JoinEmits(r))
  \/ \E p \in BagToSet(pending), crash \in BOOLEAN :
       JoinAfterGet(p, crash) /\ Observe(E, p.conn, p.room, JoinGetEmits(p))
  \/ \E p \in BagToSet(pending), ok \in BOOLEAN, crash \in BOOLEAN :
       JoinAfterAdd(p, ok, crash) /\ Observe(E, p.conn, p.room, JoinAddEmits(ok))
  \/ \E c \in E.actors, r \in E.queueRooms, a \in E.acts :
       HostAction(c, r, a[1], a[2]) /\ Observe(E, c, r, HostActionEmits(c, r))
  \/ \E c \in E.senders, r \in E.roomIds :
       MaySuspend(E) /\ SendMessage(c, r) /\ Observe(E, c, r, {})
  \/ \E p \in BagToSet(pending), ok \in BOOLEAN :
       SendAfterAdd(p, ok) /\ Observe(E, p.conn, p.room, SendAddEmits(ok))
  \/ \E c \in E.suggesters, r \in E.queueRooms, v \in E.tracks, title \in Titles,
        t1 \in Clock(E), t2 \in Clock(E) :
       SuggestTrack(c, r, v, title, t1, t2) /\ Observe(E, c, r, SuggestEmits(r, v, t1))
  \/ \E c \in E.voters, r \in E.queueRooms, v \in E.tracks :
       VoteTrack(c, r, v) /\ Observe(E, c, r, VoteEmits(r, v))
  \/ \E c \in E.actors, r \in E.queueRooms :
       PlayTopVoted(c, r) /\ Observe(E, c, r, PlayTopVotedEmits(c, r))
  \/ \E c \in E.leavers :
       /\ (WillSuspend(c) => MaySuspend(E)) /\ Disconnect(c)
       /\ Observe(E, c, IF StopIndex(c) = 0 THEN "" ELSE roomKeys[StopIndex(c)],
                  DisconnectEmits(c))
  \/ \E p \in BagToSet(pending), ok \in BOOLEAN, crash \in BOOLEAN :
       LeaveAfterAdd(p, ok, crash) /\ Observe(E, p.conn, p.room, {})

\* Rooms come and go on the room ids: sockets 1 and 2 create, sockets 2 and 3
\* join, every socket leaves; the queue and playback events go to the first
\* room id only, for one track and one voter
LifeEnv ==
  [conns |-> Conns, creators |-> {1, 2}, joiners |-> {2, 3}, leavers |-> Conns,
   actors |-> {1, 2}, senders |-> {2}, suggesters |-> {2}, voters |-> {2},
   roomIds |-> RoomIds, queueRooms |-> {IdPool[1]}, maxGuests |-> MaxGuestsIn,
   acts |-> {<<"PAUSED", 0>>}, tracks |-> {TrackPool[1]},
   clock |-> {0}, maxRoster |-> MaxRoster, maxPending |-> MaxPending,
   observe |-> FALSE]

\* One room of socket 1, which one guest fills: both suggest, vote and send
\* the host-only events, on every track
QueueEnv ==
  [conns |-> {1, 2}, creators |-> {1}, joiners |-> {2}, leavers |-> {1, 2},
   actors |-> {1, 2}, senders |-> {2}, suggesters |-> {1, 2}, voters |-> {1, 2},
   roomIds |-> {IdPool[1]}, queueRooms |-> {IdPool[1]}, maxGuests |-> {1},
   acts |-> {<<"seek", 30>>}, tracks |-> Tracks,
   clock |-> {0}, maxRoster |-> 1, maxPending |-> MaxPending,
   observe |-> FALSE]

\* One room of socket 1, of the default capacity or of 4 guests, whose roster
\* grows to the cooldown threshold, and a
\* clock that is read around the second and the minute after a suggestion
CooldownEnv ==
  [conns |-> {1, 2}, creators |-> {1}, joiners |-> {2}, leavers |-> {2},
   actors |-> {1}, senders |-> {2}, suggesters |-> {1, 2}, voters |-> {2},
   roomIds |-> {IdPool[1]}, queueRooms |-> {IdPool[1]},
   maxGuests |-> {0, CooldownUsers - 1},
   acts |-> {<<"PAUSED", 0>>}, tracks |-> {TrackPool[1], TrackPool[2]},
   clock |-> {0, 1, 1000, 59001, 60000, 60001},
   maxRoster |-> CooldownUsers - 1, maxPending |-> MaxPending,
   observe |-> FALSE]

\* One room of socket 1 and one guest, socket 2, who joins, chats, suggests,
\* votes and leaves while the clients listen to what the server sends
ChatEnv ==
  [conns |-> {1, 2}, creators |-> {1}, joiners |-> {2}, leavers |-> {1, 2},
   actors |-> {1}, senders |-> {2}, suggesters |-> {2}, voters |-> {2},
   roomIds |-> {IdPool[1]}, queueRooms |-> {IdPool[1]}, maxGuests |-> {1},
   acts |-> {<<"PAUSED", 0>>}, tracks |-> {TrackPool[1], TrackPool[2]},
   clock |-> {0}, maxRoster |-> 1, maxPending |-> MaxPending + 1,
   observe |-> TRUE]

\* One room of socket 1 with the default capacity, which socket 2 joins until
\* it counts 5; both suggest while the clients listen
FirstEnv ==
  [conns |-> {1, 2}, creators |-> {1}, joiners |-> {2}, leavers |-> {2},
   actors |-> {1}, senders |-> {2}, suggesters |-> {1, 2}, voters |-> {2},
   roomIds |-> {IdPool[1]}, queueRooms |-> {IdPool[1]}, maxGuests |-> {0},
   acts |-> {<<"PAUSED", 0>>}, tracks |-> {TrackPool[1], TrackPool[2]},
   clock |-> {0, 59001, 60000}, maxRoster |-> CooldownUsers - 1,
   maxPending |-> MaxPending, observe |-> TRUE]

\* a call to the chat collection settles, so a suspended handler is resumed
StoreSettles ==
  \/ \E p \in BagToSet(pending), crash \in BOOLEAN :
       JoinAfterGet(p, crash) /\ Observe(ChatEnv, p.conn, p.room, JoinGetEmits(p))
  \/ \E p \in BagToSet(pending), ok \in BOOLEAN, crash \in BOOLEAN :
       JoinAfterAdd(p, ok, crash) /\ Observe(ChatEnv, p.conn, p.room, JoinAddEmits(ok))
  \/ \E p \in BagToSet(pending), ok \in BOOLEAN :
       SendAfterAdd(p, ok) /\ Observe(ChatEnv, p.conn, p.room, SendAddEmits(ok))
  \/ \E p \in BagToSet(pending), ok \in BOOLEAN, crash \in BOOLEAN :
       LeaveAfterAdd(p, ok, crash) /\ Observe(ChatEnv, p.conn, p.room, {})

Spec == Init /\ [][NextE(LifeEnv)]_vars
SpecQueue == Init /\ [][NextE(QueueEnv)]_vars
SpecCooldown == Init /\ [][NextE(CooldownEnv)]_vars
SpecFirst == Init /\ [][NextE(FirstEnv)]_vars
SpecChat == Init /\ [][NextE(ChatEnv)]_vars /\ WF_vars(StoreSettles)

\* ------------------------------------------------------------------------
\* Claims
\* ------------------------------------------------------------------------

Votes(x) == Cardinality(x.votes)
Ids(queue) == [i \in 1..Len(queue) |-> queue[i].id]
Total(room) == Len(room.guests) + 1
AllMaxGuests ==
  LifeEnv.maxGuests \cup QueueEnv.maxGuests \cup CooldownEnv.maxGuests
    \cup ChatEnv.maxGuests \cup FirstEnv.maxGuests
AllTimes == Clock(CooldownEnv)
AllActs == LifeEnv.acts \cup QueueEnv.acts \cup CooldownEnv.acts
Playback(room) == <<room.currentVideoId, room.playbackState, room.lastSeekTime>>

\* the index play-top-voted must select: the most votes, the lowest index among those
Winner(queue) ==
  CHOOSE i \in 1..Len(queue) :
    /\ \A j \in 1..Len(queue) : Votes(queue[j]) <= Votes(queue[i])
    /\ \A j \in 1..(i - 1) : Votes(queue[j]) < Votes(queue[i])

\* C1: a play-top-voted of the host on a non-empty queue plays the candidate
\* with the most votes, the earliest of them on a tie: currentVideoId is its
\* id, playbackState PLAYING, lastSeekTime 0, and the queue is the old queue
\* without that one entry, order and voter sets kept.
C1_PlayTopVoted ==
  [][\A c \in Conns, r \in RoomIds :
       (PlayTopVoted(c, r) /\ Live(r) /\ rooms[r].hostId = c /\ rooms[r].queue # <<>>)
       => LET q == rooms[r].queue
              w == Winner(q)
          IN /\ r \in DOMAIN rooms'
             /\ rooms'[r].currentVideoId = q[w].id
             /\ rooms'[r].playbackState = "PLAYING"
             /\ rooms'[r].lastSeekTime = 0
             /\ rooms'[r].queue = RemoveAt(q, w)
             /\ \A i \in 1..Len(rooms'[r].queue) : rooms'[r].queue[i].id # q[w].id
             /\ rooms'[r] = [rooms[r] EXCEPT !.currentVideoId = q[w].id,
                                              !.playbackState = "PLAYING",
                                              !.lastSeekTime = 0,
                                              !.queue = RemoveAt(q, w)]]_vars

\* the second of three candidates was played and the other two remain, in
\* order, the last of them with a vote
C1_Witness ==
  \E r \in DOMAIN rooms :
    /\ rooms[r].currentVideoId = TrackPool[2]
    /\ rooms[r].playbackState = "PLAYING"
    /\ Ids(rooms[r].queue) = <<TrackPool[1], TrackPool[3]>>
    /\ rooms[r].queue[2].votes # {}

\* C2: with 5 participants or more, a suggestion of a track that is not queued,
\* arriving when the clock reads t, is rejected while t - lastSuggestionTime
\* is under 60000 ms, with a wait of 1 to 60 whole seconds that covers the
\* remaining time, and is accepted with cooldownActive = true from 60000 ms on.
C2_Cooldown ==
  \A r \in DOMAIN rooms, v \in Tracks, t \in AllTimes :
    (t >= now /\ Total(rooms[r]) >= 5 /\ v \notin SeqToSet(Ids(rooms[r].queue)))
    => LET reply == SuggestReply(r, v, t)
           elapsed == t - rooms[r].lastSuggestionTime
       IN IF elapsed < 60000
          THEN /\ ~reply.success
               /\ reply.n \in 1..60
               /\ 1000 * (reply.n - 1) < 60000 - elapsed
               /\ 60000 - elapsed <= 1000 * reply.n
          ELSE reply.success /\ reply.cooldownActive

\* a 5-participant room whose clock was read, for a rejected suggestion, less
\* than a second before the minute after the accepted one was over
C2_Witness ==
  \E r \in DOMAIN rooms :
    /\ Total(rooms[r]) >= 5
    /\ rooms[r].queue # <<>>
    /\ now - rooms[r].lastSuggestionTime = 59001

\* C3: with fewer than 5 participants, a suggestion of a track that is not
\* queued is accepted whatever the clock reads, with cooldownActive = false.
C3_NoCooldownBelowFive ==
  \A r \in DOMAIN rooms, v \in Tracks, t \in AllTimes :
    (t >= now /\ Total(rooms[r]) < 5 /\ v \notin SeqToSet(Ids(rooms[r].queue)))
    => /\ SuggestReply(r, v, t).success
       /\ ~SuggestReply(r, v, t).cooldownActive

\* a room below 5 participants that took a second suggestion at the very
\* instant of the first
C3_Witness ==
  \E r \in DOMAIN rooms :
    /\ Total(rooms[r]) \in 2..4
    /\ Len(rooms[r].queue) = 2
    /\ now = StartTime
    /\ rooms[r].lastSuggestionTime = StartTime

\* C4: a vote-track on a queued candidate changes that candidate's voter set
\* by the voting socket alone (added when absent, removed when present), so
\* that the same vote again gives the first set back; the other candidates,
\* the order of the queue and the rest of the room do not change.
C4_VoteToggle ==
  [][\A c \in Conns, r \in RoomIds, v \in Tracks :
       (VoteTrack(c, r, v) /\ Live(r) /\ v \in SeqToSet(Ids(rooms[r].queue)))
       => LET q == rooms[r].queue
              i == CHOOSE k \in 1..Len(q) : q[k].id = v
              after == rooms'[r].queue
          IN /\ Len(after) = Len(q)
             /\ after[i].votes = IF c \in q[i].votes THEN q[i].votes \ {c}
                                                     ELSE q[i].votes \cup {c}
             /\ Toggle(after[i].votes, c) = q[i].votes
             /\ \A k \in 1..Len(q) : k # i => after[k] = q[k]
             /\ rooms'[r] = [rooms[r] EXCEPT !.queue[i].votes = after[i].votes]
             /\ \A k \in DOMAIN rooms \ {r} : rooms'[k] = rooms[k]]_vars

\* two sockets voted the first candidate, one of them the second as well
C4_Witness ==
  \E r \in DOMAIN rooms :
    /\ Len(rooms[r].queue) >= 2
    /\ rooms[r].queue[1].votes = {1, 2}
    /\ rooms[r].queue[2].votes = {2}

\* C5: no queue holds a track id twice, and suggest-track answers a queued
\* track id with a failure whatever the votes of that candidate.
C5_UniqueTrackIds ==
  \A r \in DOMAIN rooms :
    /\ \A i, j \in 1..Len(rooms[r].queue) :
         rooms[r].queue[i].id = rooms[r].queue[j].id => i = j
    /\ \A i \in 1..Len(rooms[r].queue) :
         ~SuggestReply(r, rooms[r].queue[i].id, now).success

\* a track that was played is queued again, once, behind a voted candidate
C5_Witness ==
  \E r \in DOMAIN rooms :
    /\ rooms[r].currentVideoId = TrackPool[1]
    /\ Len(rooms[r].queue) = 2
    /\ rooms[r].queue[1].votes # {}
    /\ rooms[r].queue[2].id = TrackPool[1]

\* C6: the roster of a live room is never longer than its maxGuests.
C6_RosterWithinMaxGuests ==
  \A r \in DOMAIN rooms : Len(rooms[r].guests) <= rooms[r].maxGuests

\* C7: the host of every live room is a connected socket.
C7_HostConnected ==
  \A r \in DOMAIN rooms : conn[rooms[r].hostId] = "connected"

\* C8: the disconnect of a socket leaves every room it is a guest of, and not
\* the host of, live and unchanged but for its roster, which loses that
\* socket's entry.
C8_GuestDisconnect ==
  [][\A c \in Conns, r \in RoomIds :
       (/\ Disconnect(c)
        /\ Live(r)
        /\ rooms[r].hostId # c
        /\ \E i \in 1..Len(rooms[r].guests) : rooms[r].guests[i].id = c)
       => /\ r \in DOMAIN rooms'
          /\ rooms'[r] =
               [rooms[r] EXCEPT !.guests =
                  RemoveAt(@, FindIndex(@, LAMBDA g : g.id = c))]]_vars

\* C9: a host-action or play-top-voted of a socket that is not the room's
\* host emits nothing and changes no room; and the playback fields of a room
\* session (currentVideoId, playbackState, lastSeekTime) change only in the
\* step of a host-action or play-top-voted of its host.  A create-room that
\* stores a new session object under the id is not a change of the old one.
C9_HostOnlyPlayback ==
  [][/\ \A c \in Conns, r \in DOMAIN rooms :
          c # rooms[r].hostId
          => /\ HostActionEmits(c, r) = {}
             /\ PlayTopVotedEmits(c, r) = {}
             /\ PlayTopVoted(c, r) => UNCHANGED rooms
             /\ \A a \in AllActs : HostAction(c, r, a[1], a[2]) => UNCHANGED rooms
     /\ \A r \in DOMAIN rooms :
          (/\ r \in DOMAIN rooms'
           /\ Playback(rooms'[r]) # Playback(rooms[r])
           /\ ~\E c \in Conns, m \in AllMaxGuests : CreateRoom(c, r, m))
          => \/ PlayTopVoted(rooms[r].hostId, r)
             \/ \E a \in AllActs : HostAction(rooms[r].hostId, r, a[1], a[2])]_vars

\* the host sought to 30 s while a connected guest was in the room
C9_Witness ==
  \E r \in DOMAIN rooms :
    /\ rooms[r].playbackState = "seek"
    /\ rooms[r].lastSeekTime = 30
    /\ \E i \in 1..Len(rooms[r].guests) :
         /\ rooms[r].guests[i].id # rooms[r].hostId
         /\ conn[rooms[r].guests[i].id] = "connected"

\* C10: a join-room for a room id that is not live, or for a room whose roster
\* has reached maxGuests, is answered with a failure and changes neither the
\* registry nor any room; a suggest-track for a room id that is not live, or
\* for a track id that is queued, is answered with a failure and changes no
\* queue and no lastSuggestionTime.
C10_FailureLeavesState ==
  [][/\ \A r \in RoomIds :
          (Live(r) => Len(rooms[r].guests) >= rooms[r].maxGuests)
          => JoinReply(r) = Ack(FALSE, IF Live(r) THEN "This room is full."
                                                  ELSE "Room not found")
     /\ \A r \in RoomIds, v \in Tracks :
          (Live(r) => v \in SeqToSet(Ids(rooms[r].queue)))
          => ~SuggestReply(r, v, now).success
     /\ <<rooms, roomKeys, pending>>' # <<rooms, roomKeys, pending>>
        => \A c \in Conns, r \in RoomIds, u \in Names :
             (Live(r) => Len(rooms[r].guests) >= rooms[r].maxGuests)
             => ~JoinRoom(c, r, u)
     \* these two rejections come before any reading of the clock
     /\ <<rooms, roomKeys>>' # <<rooms, roomKeys>>
        => \A c \in Conns, r \in RoomIds, v \in Tracks, title \in Titles :
             (Live(r) => v \in SeqToSet(Ids(rooms[r].queue)))
             => ~SuggestTrack(c, r, v, title, now', now')]_vars

\* a room whose roster has reached its maxGuests and whose queue holds a track
C10_Witness ==
  \E r \in DOMAIN rooms :
    /\ Len(rooms[r].guests) = rooms[r].maxGuests
    /\ rooms[r].queue # <<>>

\* C11: a failure of the chat store never keeps the broadcast back: the step
\* that ends a send-message, the step that ends an accepted join-room, and the
\* disconnect of a guest each emit new-message, whatever the append did.
C11_StoreFailureNoBlock ==
  [][/\ (\E p \in BagToSet(pending), ok \in BOOLEAN : SendAfterAdd(p, ok))
        => "new-message" \in emitted'.events
     /\ (\E p \in BagToSet(pending), ok \in BOOLEAN, crash \in BOOLEAN :
           JoinAfterAdd(p, ok, crash))
        => "new-message" \in emitted'.events
     /\ (\E c \in Conns : Disconnect(c) /\ WillSuspend(c))
        => "new-message" \in emitted'.events]_vars

\* C12: while a join-room of a room is between its roster append and its end,
\* no join, vote, suggestion, play-top-voted, host-action or disconnect changes
\* that room: the operations on one room do not interleave.
C12_Serialized ==
  [][\A p \in BagToSet(pending) :
       (/\ p.kind = "join"
        /\ Live(p.room)
        /\ ~\E c \in Conns, m \in AllMaxGuests : CreateRoom(c, p.room, m))
       => /\ p.room \in DOMAIN rooms'
          /\ rooms'[p.room] = rooms[p.room]]_vars

\* C13: the id a create-room takes is bound to no live room at that moment,
\* so no create-room replaces the session of a live room.
C13_FreshRoomId ==
  [][\A c \in Conns, r \in RoomIds, m \in AllMaxGuests :
       CreateRoom(c, r, m) => ~Live(r)]_vars

\* C14: the playbackState of every live room is PAUSED or PLAYING.
C14_PlaybackStates ==
  \A r \in DOMAIN rooms : rooms[r].playbackState \in {"PAUSED", "PLAYING"}

\* C15: the roster of a room holds no socket id twice.
C15_RosterUnique ==
  \A r \in DOMAIN rooms :
    \A i, j \in 1..Len(rooms[r].guests) :
      rooms[r].guests[i].id = rooms[r].guests[j].id => i = j

\* C16: a socket whose disconnect was handled is in the roster of no live room.
C16_GoneFromRosters ==
  \A c \in Conns :
    conn[c] = "gone"
    => \A r \in DOMAIN rooms :
         \A i \in 1..Len(rooms[r].guests) : rooms[r].guests[i].id # c

\* C17: the lastSuggestionTime of a room changes in the step of an accepted
\* suggest-track and in no other step, and every accepted suggestion sets it
\* to the clock reading, with fewer than 5 participants as well; so whenever a
\* room has 5 participants, a suggestion inside the minute after the last
\* accepted one is rejected, whatever the room counted when that one came.
C17_LastSuggestionTime ==
  /\ [](\A r \in DOMAIN rooms, v \in Tracks, t \in AllTimes :
          (/\ t >= now
           /\ Total(rooms[r]) >= 5
           /\ v \notin SeqToSet(Ids(rooms[r].queue))
           /\ t - rooms[r].lastSuggestionTime < 60000)
          => SuggestReply(r, v, t).message = "Please wait")
  /\ [][\A r \in DOMAIN rooms :
          /\ (/\ r \in DOMAIN rooms'
              /\ rooms'[r].lastSuggestionTime # rooms[r].lastSuggestionTime
              /\ ~\E c \in Conns, m \in AllMaxGuests : CreateRoom(c, r, m))
             => /\ rooms'[r].lastSuggestionTime = now'
                /\ \E c \in Conns, v \in Tracks, title \in Titles, t1 \in AllTimes :
                     /\ SuggestReply(r, v, t1).success
                     /\ SuggestTrack(c, r, v, title, t1, now')
          /\ (r \in DOMAIN rooms' /\ Len(rooms'[r].queue) > Len(rooms[r].queue))
             => rooms'[r].lastSuggestionTime = now']_vars

\* a room took a suggestion a millisecond after an earlier one, so with fewer
\* than 5 participants, has 5 now, and read the clock a second later for a
\* suggestion that it rejected
C17_Witness ==
  \E r \in DOMAIN rooms :
    /\ Total(rooms[r]) >= 5
    /\ rooms[r].currentVideoId # DefaultVideo
    /\ Len(rooms[r].queue) = 1
    /\ rooms[r].lastSuggestionTime = StartTime + 1
    /\ now = StartTime + 1000

\* C18: a join-room that was appended to the roster is acked in the end: the
\* joined message is broadcast and the joiner gets ack success.
C18_JoinAcked ==
  \A c \in ChatEnv.joiners, r \in ChatEnv.roomIds :
    (\E p \in BagToSet(pending) : p.kind = "join" /\ p.conn = c /\ p.room = r)
    ~> (/\ emitted.conn = c
        /\ emitted.room = r
        /\ {"new-message", "ack"} \subseteq emitted.events)

\* the handlers that wait on the chat store, among the calls in flight
Suspended(bag, p) == IF p.kind \in {"join", "send"} THEN CopiesIn(p, bag) ELSE 0

\* C19: vote-track, suggest-track, play-top-voted, host-action and disconnect
\* run to their end in one step and suspend no handler; a play-top-voted
\* selects on the votes cast before it, a vote cast after it changes no
\* playback field, and a handler that resumes from the chat store writes
\* nothing to a room, also while a join-room or send-message is suspended.
C19_SyncHandlersAtomic ==
  [][/\ \A c \in Conns, r \in RoomIds :
          (PlayTopVoted(c, r) /\ Live(r) /\ rooms[r].hostId = c /\ rooms[r].queue # <<>>)
          => /\ r \in DOMAIN rooms'
             /\ rooms'[r].currentVideoId = rooms[r].queue[Winner(rooms[r].queue)].id
             /\ pending' = pending
     /\ \A c \in Conns, r \in RoomIds, v \in Tracks :
          (VoteTrack(c, r, v) /\ Live(r))
          => /\ r \in DOMAIN rooms'
             /\ Playback(rooms'[r]) = Playback(rooms[r])
             /\ pending' = pending
     /\ (\/ \E c \in Conns, r \in RoomIds, a \in AllActs : HostAction(c, r, a[1], a[2])
         \/ \E c \in Conns, r \in RoomIds, v \in Tracks, title \in Titles :
              SuggestTrack(c, r, v, title, now', now'))
        => pending' = pending
     /\ (\E c \in Conns : Disconnect(c))
        => \A p \in BagToSet(pending) \cup BagToSet(pending') :
             Suspended(pending', p) = Suspended(pending, p)
     /\ (\/ \E p \in BagToSet(pending), crash \in BOOLEAN : JoinAfterGet(p, crash)
         \/ \E p \in BagToSet(pending), ok \in BOOLEAN, crash \in BOOLEAN :
              JoinAfterAdd(p, ok, crash) \/ LeaveAfterAdd(p, ok, crash)
         \/ \E p \in BagToSet(pending), ok \in BOOLEAN : SendAfterAdd(p, ok))
        => UNCHANGED <<rooms, roomKeys>>]_vars

\* while the guest's join-room waits on the chat store, the guest suggested a
\* track under its name and voted it, and the host's play-top-voted has just
\* played the other track, which therefore held the guest's vote as well
C19_Witness ==
  \E r \in DOMAIN rooms :
    /\ emitted.room = r
    /\ emitted.events = {"set-video"}
    /\ \E p \in BagToSet(pending) : p.kind = "join" /\ p.room = r
    /\ rooms[r].currentVideoId = TrackPool[2]
    /\ Len(rooms[r].queue) = 1
    /\ rooms[r].queue[1].id = TrackPool[1]
    /\ rooms[r].queue[1].suggestedBy = "ann"
    /\ rooms[r].queue[1].votes = {2}

\* C20: a room that has accepted no suggestion yet has lastSuggestionTime 0,
\* and a suggest-track of any track id, at any clock reading, is accepted
\* there, with 5 participants or more as well (the cooldown is then checked
\* and passed).
C20_FirstSuggestion ==
  \A r \in DOMAIN rooms :
    (rooms[r].queue = <<>> /\ rooms[r].currentVideoId = DefaultVideo)
    => /\ rooms[r].lastSuggestionTime = 0
       /\ \A v \in Tracks, t \in AllTimes :
            t >= now
            => /\ SuggestReply(r, v, t).success
               /\ SuggestReply(r, v, t).cooldownActive = (Total(rooms[r]) >= 5)

\* the only suggestion a room ever took has just been accepted past the
\* cooldown check, that is, with 5 participants or more
C20_Witness ==
  \E r \in DOMAIN rooms :
    /\ emitted.room = r
    /\ emitted.events = {"update-queue", "ack", "cooldownActive"}
    /\ Total(rooms[r]) >= 5
    /\ Len(rooms[r].queue) = 1
    /\ rooms[r].currentVideoId = DefaultVideo

====
